---------------------------- MODULE Spec2Model ----------------------------
(***************************************************************************)
(* A model of pbix_analyzer.analyzer.PBIXAnalyzer: construction with its   *)
(* two checks, list_contents() with its scoped ZipFile, print_contents()   *)
(* and the filesystem the analyzer reads, which other programs change.     *)
(*                                                                         *)
(* Text is a sequence of one-character strings, so that suffixes, case     *)
(* folding, padding and digit grouping are computed character by           *)
(* character.  A call runs from pc = "idle" to pc = "done", where the      *)
(* caller holds what the call returned, raised and printed; Resume hands   *)
(* control back.  The program is single threaded and synchronous; other    *)
(* programs act on the filesystem between its calls.                       *)
(***************************************************************************)
EXTENDS Integers, Sequences, FiniteSets

\* ------------------------------------------------------------------ bounds
\* At most this many paths exist at once in the modelled directory.
MaxFiles == 1

\* An archive holds at most this many entries.
MaxEntries == 2

\* ------------------------------------------------- constants of the program
\* f"{item['name']:<60}"
NameWidth == 60

\* f"{item['size']:>15}"
SizeWidth == 15

\* "-" * 80
RuleWidth == 80

\* ------------------------------------------------------------------- text
PbixExt ==
  <<".", "p", "b", "i", "x">>
NotFoundPrefix ==
  <<"P", "B", "I", "X", " ", "f", "i", "l", "e", " ", "n", "o", "t", " ",
    "f", "o", "u", "n", "d", ":", " ">>
ExtensionPrefix ==
  <<"F", "i", "l", "e", " ", "m", "u", "s", "t", " ", "h", "a", "v", "e",
    " ", ".", "p", "b", "i", "x", " ", "e", "x", "t", "e", "n", "s", "i",
    "o", "n", ",", " ", "g", "o", "t", ":", " ">>
FailedPrefix ==
  <<"F", "a", "i", "l", "e", "d", " ", "t", "o", " ", "o", "p", "e", "n",
    " ">>
FailedSuffix ==
  <<" ", "a", "s", " ", "a", " ", "Z", "I", "P", " ", "f", "i", "l", "e",
    ".", " ", "F", "i", "l", "e", " ", "m", "a", "y", " ", "b", "e", " ",
    "c", "o", "r", "r", "u", "p", "t", "e", "d", ".">>
BytesSuffix ==
  <<" ", "b", "y", "t", "e", "s">>
HeaderPrefix ==
  <<"\n", "C", "o", "n", "t", "e", "n", "t", "s", " ", "o", "f", " ">>
TotalPrefix ==
  <<"\n", "T", "o", "t", "a", "l", " ", "f", "i", "l", "e", "s", ":", " ">>
\* What open() reports for a missing file and for a directory.
ENOENTPrefix ==
  <<"[", "E", "r", "r", "n", "o", " ", "2", "]", " ", "N", "o", " ", "s",
    "u", "c", "h", " ", "f", "i", "l", "e", " ", "o", "r", " ", "d", "i",
    "r", "e", "c", "t", "o", "r", "y", ":", " ", "'">>
EISDIRPrefix ==
  <<"[", "E", "r", "r", "n", "o", " ", "2", "1", "]", " ", "I", "s", " ",
    "a", " ", "d", "i", "r", "e", "c", "t", "o", "r", "y", ":", " ", "'">>
UpperCase ==
  <<"A", "B", "C", "D", "E", "F", "G", "H", "I", "J", "K", "L", "M",
    "N", "O", "P", "Q", "R", "S", "T", "U", "V", "W", "X", "Y", "Z">>

LowerCase ==
  <<"a", "b", "c", "d", "e", "f", "g", "h", "i", "j", "k", "l", "m",
    "n", "o", "p", "q", "r", "s", "t", "u", "v", "w", "x", "y", "z">>

DigitChar ==
  <<"0", "1", "2", "3", "4", "5", "6", "7", "8", "9">>

\* str.lower() on one character.
LowerChar(c) ==
  IF \E k \in 1..Len(UpperCase) : UpperCase[k] = c
    THEN LowerCase[CHOOSE k \in 1..Len(UpperCase) : UpperCase[k] = c]
    ELSE c

\* str.lower()
lower(s) == [k \in 1..Len(s) |-> LowerChar(s[k])]

\* str.rfind(c): the last index of c in s, 0 when there is none (Python: -1).
rfind(s, c) ==
  IF \E k \in 1..Len(s) : s[k] = c
    THEN CHOOSE k \in 1..Len(s) : s[k] = c /\ \A j \in (k+1)..Len(s) : s[j] # c
    ELSE 0

\* Path.name: the final component of the path.
name(path) == SubSeq(path, rfind(path, "/") + 1, Len(path))

\* Path.suffix: the final component from its last dot on, when that dot is
\* neither its first nor its last character; otherwise empty.
suffix(path) ==
  LET n == name(path)
      d == rfind(n, ".")
  IN IF 1 < d /\ d < Len(n) THEN SubSeq(n, d, Len(n)) ELSE <<>>

\* c repeated n times.
Repeat(c, n) == [k \in 1..n |-> c]

\* format(s, "<w"): s left-aligned in a field at least w wide.
LeftAlign(s, w) == s \o Repeat(" ", IF Len(s) < w THEN w - Len(s) ELSE 0)

\* format(s, ">w"): s right-aligned in a field at least w wide.
RightAlign(s, w) == Repeat(" ", IF Len(s) < w THEN w - Len(s) ELSE 0) \o s

\* str(n) for n >= 0.
RECURSIVE Decimal(_)
Decimal(n) ==
  IF n < 10 THEN <<DigitChar[n + 1]>>
  ELSE Decimal(n \div 10) \o <<DigitChar[(n % 10) + 1]>>

\* The "," of format(n, ","): a comma before every group of three digits,
\* counted from the right.
RECURSIVE Grouped(_)
Grouped(ds) ==
  IF Len(ds) <= 3 THEN ds
  ELSE Grouped(SubSeq(ds, 1, Len(ds) - 3)) \o <<",">>
         \o SubSeq(ds, Len(ds) - 2, Len(ds))

\* f"{file_size:,} bytes" with the separators left out.
FormatSize_noGrouping(n) == Decimal(n) \o BytesSuffix

\* f"{file_info.file_size:,} bytes"
FormatSize(n) == Grouped(Decimal(n)) \o BytesSuffix

\* ------------------------------------------------------- the filesystem
TestTxt ==
  <<"t", "e", "s", "t", ".", "t", "x", "t">>
DotPbix ==
  <<".", "p", "b", "i", "x">>
VersionedModel ==
  <<"v", "1", ".", "0", "/", "m", "o", "d", "e", "l">>
ModelPbix ==
  <<"m", "o", "d", "e", "l", ".", "p", "b", "i", "x">>
MixedPbix ==
  <<"Q", "3", ".", "P", "b", "i", "x">>
\* Paths whose content is never read keep it abstract (data or directory).
OtherPaths == {TestTxt, DotPbix, VersionedModel}

\* Paths that may hold an archive.
ArchivePaths == {ModelPbix, MixedPbix}

Paths == OtherPaths \cup ArchivePaths

NameLayout ==
  <<"R", "e", "p", "o", "r", "t", "/", "L", "a", "y", "o", "u", "t">>
NameDataModel ==
  <<"D", "a", "t", "a", "M", "o", "d", "e", "l">>
NameContentTypes ==
  <<"[", "C", "o", "n", "t", "e", "n", "t", "_", "T", "y", "p", "e", "s",
    "]", ".", "x", "m", "l">>
NameVersion ==
  <<"V", "e", "r", "s", "i", "o", "n">>
NameLong ==
  <<"R", "e", "p", "o", "r", "t", "/", "S", "t", "a", "t", "i", "c", "R",
    "e", "s", "o", "u", "r", "c", "e", "s", "/", "S", "h", "a", "r", "e",
    "d", "R", "e", "s", "o", "u", "r", "c", "e", "s", "/", "B", "a", "s",
    "e", "T", "h", "e", "m", "e", "s", "/", "C", "Y", "2", "4", "S", "U",
    "0", "6", ".", "j", "s", "o", "n">>
\* The central-directory records archives are cut from: in stored order, which
\* is not the sorted order of the names.
Catalog ==
  << [filename |-> NameLayout,       file_size |-> 512],
     [filename |-> NameDataModel,    file_size |-> 2048],
     [filename |-> NameLong,         file_size |-> 1234567890],
     [filename |-> NameContentTypes, file_size |-> 0],
     [filename |-> NameVersion,      file_size |-> 1000000] >>

Archives ==
  { SubSeq(Catalog, i, j) :
      <<i, j>> \in { ij \in (1..Len(Catalog)) \X (0..Len(Catalog)) :
                       ij[2] - ij[1] + 1 >= 0 /\ ij[2] - ij[1] + 1 <= MaxEntries } }

Absent    == [kind |-> "absent", entries |-> <<>>]
Directory == [kind |-> "dir",    entries |-> <<>>]
\* A regular file whose bytes are not a ZIP container.
Data      == [kind |-> "data",   entries |-> <<>>]
ZipOf(a)  == [kind |-> "zip",    entries |-> a]

ContentsOf(p) ==
  IF p \in ArchivePaths
    THEN {Directory, Data} \cup {ZipOf(a) : a \in Archives}
    ELSE {Directory, Data}

Existing(f) == {p \in Paths : f[p] # Absent}

\* Path.exists()
exists(f, path) == f[path] # Absent

\* ------------------------------------------------------------- exceptions
\* kind names the condition of the error taxonomy; it is not a field of the
\* Python exception, whose class is cls and whose text is msg.
NotFoundError(pbix_path) ==
  [cls |-> "FileNotFoundError", kind |-> "NotFound",
   msg |-> NotFoundPrefix \o pbix_path]

ExtensionError(path) ==
  [cls |-> "ValueError", kind |-> "InvalidExtension",
   msg |-> ExtensionPrefix \o suffix(path)]

CorruptError(path) ==
  [cls |-> "ValueError", kind |-> "CorruptArchive",
   msg |-> FailedPrefix \o path \o FailedSuffix]

\* Raised by open() inside zipfile.ZipFile; no except clause matches them.
OpenMissingError(path) ==
  [cls |-> "FileNotFoundError", kind |-> "NotFound",
   msg |-> ENOENTPrefix \o path \o <<"'">>]

OpenDirectoryError(path) ==
  [cls |-> "IsADirectoryError", kind |-> "Other",
   msg |-> EISDIRPrefix \o path \o <<"'">>]

\* An error raised inside the with block, such as MemoryError.
BodyError == [cls |-> "MemoryError", kind |-> "Other", msg |-> <<>>]

\* ----------------------------------------------------------- construction
\* The suffix compared without lower().
ExtensionOk_caseSensitive(path) == suffix(path) = PbixExt

\* self.pbix_path.suffix.lower() != '.pbix', negated.
ExtensionOk(path) == lower(suffix(path)) = PbixExt

\* __init__ with the extension checked before the existence.
InitRaises_extensionFirst(f, pbix_path) ==
  IF ~ExtensionOk(pbix_path) THEN <<ExtensionError(pbix_path)>>
  ELSE IF ~exists(f, pbix_path) THEN <<NotFoundError(pbix_path)>>
  ELSE <<>>

\* __init__ that also opens the file and rejects what is no archive.
InitRaises_eager(f, pbix_path) ==
  IF ~exists(f, pbix_path) THEN <<NotFoundError(pbix_path)>>
  ELSE IF ~ExtensionOk(pbix_path) THEN <<ExtensionError(pbix_path)>>
  ELSE IF f[pbix_path].kind = "data" THEN <<CorruptError(pbix_path)>>
  ELSE <<>>

\* __init__ reporting a missing file as a ValueError.
InitRaises_oneClass(f, pbix_path) ==
  IF ~exists(f, pbix_path)
    THEN <<[NotFoundError(pbix_path) EXCEPT !.cls = "ValueError"]>>
  ELSE IF ~ExtensionOk(pbix_path) THEN <<ExtensionError(pbix_path)>>
  ELSE <<>>

\* What __init__ raises on filesystem f: <<>> when it returns normally.
InitRaises(f, pbix_path) ==
  IF ~exists(f, pbix_path) THEN <<NotFoundError(pbix_path)>>
  ELSE IF ~ExtensionOk(pbix_path) THEN <<ExtensionError(pbix_path)>>
  ELSE <<>>

\* ------------------------------------------------------------ the report
\* One line of the report: print(f"{item['name']:<60} {item['size']:>15}").
EntryLine(item) ==
  LeftAlign(item.name, NameWidth) \o <<" ">> \o RightAlign(item.size, SizeWidth)
    \o <<"\n">>

RECURSIVE EntryLines(_)
EntryLines(items) ==
  IF items = <<>> THEN <<>>
  ELSE EntryLine(Head(items)) \o EntryLines(Tail(items))

\* print_contents counting one entry too few.
Report_shortTotal(path, items) ==
  HeaderPrefix \o name(path) \o <<":", "\n">>
    \o Repeat("-", RuleWidth) \o <<"\n">>
    \o EntryLines(items)
    \o TotalPrefix \o Decimal(IF items = <<>> THEN 0 ELSE Len(items) - 1)
    \o <<"\n">>

\* Everything print_contents writes to standard output for the listing items.
Report(path, items) ==
  HeaderPrefix \o name(path) \o <<":", "\n">>
    \o Repeat("-", RuleWidth) \o <<"\n">>
    \o EntryLines(items)
    \o TotalPrefix \o Decimal(Len(items)) \o <<"\n">>

\* The dictionary list_contents appends for one ZipInfo.
Record(file_info) ==
  [name |-> file_info.filename, size |-> FormatSize(file_info.file_size)]

\* ------------------------------------------------------------------ state
VARIABLES
  fs,         \* the filesystem: what each path holds
  pbix_path,  \* <<path>> of the constructed analyzer, <<>> before construction
  pc,         \* "idle", then the position inside the running call, then "done"
  op,         \* the call the caller made: "", "__init__", "list_contents", "print_contents"
  arg,        \* <<pbix_path argument>> of the running constructor call
  pending,    \* the ZipInfo records the for loop has still to visit
  contents,   \* the list bound to contents in list_contents
  handles,    \* file handles the analyzer holds open
  ret,        \* <<list>> returned by list_contents, <<>> when nothing was returned
  raised,     \* <<exception>> raised to the caller, <<>> when none
  stdout,     \* what the running call wrote to standard output
  prev,       \* <<list>> of the last listing of the file as it still is
  errlog      \* every (kind, class, operation) raised so far

vars ==
  <<fs, pbix_path, pc, op, arg, pending, contents, handles, ret, raised,
    stdout, prev, errlog>>

\* The taxonomy errors among r (<<>> or <<exception>>), as raised by operation f.
Logged(r, f) ==
  IF r # <<>> /\ r[1].kind # "Other"
    THEN {[kind |-> r[1].kind, cls |-> r[1].cls, by |-> f]}
    ELSE {}

Init ==
  /\ fs = [p \in Paths |-> Absent]
  /\ pbix_path = <<>>
  /\ pc = "idle"
  /\ op = ""
  /\ arg = <<>>
  /\ pending = <<>>
  /\ contents = <<>>
  /\ handles = 0
  /\ ret = <<>>
  /\ raised = <<>>
  /\ stdout = <<>>
  /\ prev = <<>>
  /\ errlog = {}

\* ------------------------------------------------- other programs' steps
\* Another program creates p or replaces what it holds.
FsWrite(p, c) ==
  /\ pc = "idle"
  /\ c # fs[p]
  /\ Cardinality(Existing(fs) \cup {p}) <= MaxFiles
  /\ fs' = [fs EXCEPT ![p] = c]
  /\ prev' = IF pbix_path = <<p>> THEN <<>> ELSE prev
  /\ UNCHANGED <<pbix_path, pc, op, arg, pending, contents, handles, ret,
                 raised, stdout, errlog>>

\* Another program deletes p.
FsDelete(p) ==
  /\ pc = "idle"
  /\ fs[p] # Absent
  /\ fs' = [fs EXCEPT ![p] = Absent]
  /\ prev' = IF pbix_path = <<p>> THEN <<>> ELSE prev
  /\ UNCHANGED <<pbix_path, pc, op, arg, pending, contents, handles, ret,
                 raised, stdout, errlog>>

\* ------------------------------------------------------ PBIXAnalyzer(p)
\* The instance exists for the caller only when __init__ returns normally.
Construct(p) ==
  /\ pc = "idle"
  /\ pbix_path = <<>>
  /\ op' = "__init__"
  /\ arg' = <<p>>
  /\ raised' = InitRaises(fs, p)
  /\ pbix_path' = IF InitRaises(fs, p) = <<>> THEN <<p>> ELSE <<>>
  /\ errlog' = errlog \cup Logged(InitRaises(fs, p), "__init__")
  /\ pc' = "done"
  /\ UNCHANGED <<fs, pending, contents, handles, ret, stdout, prev>>

\* ------------------------------------------------------- list_contents()
\* list_contents entered with contents left as the last call bound it.
EnterListContents_keep ==
  /\ contents' = contents
  /\ pc' = "open"

\* contents = []
EnterListContents ==
  /\ contents' = <<>>
  /\ pc' = "open"

\* The caller calls list_contents().
CallListContents ==
  /\ pc = "idle"
  /\ pbix_path # <<>>
  /\ op' = "list_contents"
  /\ EnterListContents
  /\ UNCHANGED <<fs, pbix_path, arg, pending, handles, ret, raised, stdout,
                 prev, errlog>>

\* The caller calls print_contents(), which starts by calling list_contents().
CallPrintContents ==
  /\ pc = "idle"
  /\ pbix_path # <<>>
  /\ op' = "print_contents"
  /\ EnterListContents
  /\ UNCHANGED <<fs, pbix_path, arg, pending, handles, ret, raised, stdout,
                 prev, errlog>>

\* A handle given back: the close of the with statement, and the close
\* zipfile.ZipFile makes itself when its constructor fails.
CloseHandle_leak(h) == h

CloseHandle(h) == h - 1

\* The archive opened for writing: mode 'w' creates or truncates the file.
ZipFile_open_writing ==
  /\ pc = "open"
  /\ \/ /\ fs[pbix_path[1]] = Directory
        /\ raised' = <<OpenDirectoryError(pbix_path[1])>>
        /\ errlog' = errlog
        /\ pc' = "done"
        /\ UNCHANGED <<fs, handles>>
     \/ /\ fs[pbix_path[1]] # Directory
        /\ fs' = [fs EXCEPT ![pbix_path[1]] = ZipOf(<<>>)]
        /\ handles' = handles + 1
        /\ pc' = "read"
        /\ UNCHANGED <<raised, errlog>>
  /\ UNCHANGED <<pbix_path, op, arg, pending, contents, ret, stdout, prev>>

\* zipfile.ZipFile(self.pbix_path, 'r'): the file is opened for reading.
ZipFile_open ==
  /\ pc = "open"
  /\ \/ /\ fs[pbix_path[1]] = Absent
        /\ raised' = <<OpenMissingError(pbix_path[1])>>
        /\ errlog' = errlog \cup Logged(raised', "list_contents")
        /\ pc' = "done"
        /\ UNCHANGED handles
     \/ /\ fs[pbix_path[1]] = Directory
        /\ raised' = <<OpenDirectoryError(pbix_path[1])>>
        /\ errlog' = errlog
        /\ pc' = "done"
        /\ UNCHANGED handles
     \/ /\ fs[pbix_path[1]].kind \in {"data", "zip"}
        /\ handles' = handles + 1
        /\ pc' = "read"
        /\ UNCHANGED <<raised, errlog>>
  /\ UNCHANGED <<fs, pbix_path, op, arg, pending, contents, ret, stdout, prev>>

\* zipfile.ZipFile reads the central directory: it fills filelist, or closes
\* the file and raises BadZipFile, which list_contents turns into ValueError.
ZipFile_RealGetContents ==
  /\ pc = "read"
  /\ \/ /\ fs[pbix_path[1]].kind = "zip"
        /\ pending' = fs[pbix_path[1]].entries
        /\ pc' = "loop"
        /\ UNCHANGED <<handles, raised, errlog>>
     \/ /\ fs[pbix_path[1]].kind = "data"
        /\ handles' = CloseHandle(handles)
        /\ raised' = <<CorruptError(pbix_path[1])>>
        /\ errlog' = errlog \cup Logged(raised', "list_contents")
        /\ pc' = "done"
        /\ UNCHANGED pending
  /\ UNCHANGED <<fs, pbix_path, op, arg, contents, ret, stdout, prev>>

\* One iteration of for file_info in pbix.filelist.
AppendRecord ==
  /\ pc = "loop"
  /\ pending # <<>>
  /\ contents' = Append(contents, Record(Head(pending)))
  /\ pending' = Tail(pending)
  /\ UNCHANGED <<fs, pbix_path, pc, op, arg, handles, ret, raised, stdout,
                 prev, errlog>>

\* An iteration raises: the with statement closes the archive and the error
\* leaves list_contents, which catches BadZipFile only.
BodyRaises ==
  /\ pc = "loop"
  /\ pending # <<>>
  /\ handles' = CloseHandle(handles)
  /\ raised' = <<BodyError>>
  /\ pending' = <<>>
  /\ pc' = "done"
  /\ UNCHANGED <<fs, pbix_path, op, arg, contents, ret, stdout, prev, errlog>>

\* The loop is over: the with statement closes the archive and list_contents
\* returns contents, to the caller or to print_contents.
ReturnContents ==
  /\ pc = "loop"
  /\ pending = <<>>
  /\ handles' = CloseHandle(handles)
  /\ ret' = <<contents>>
  /\ pc' = IF op = "print_contents" THEN "print" ELSE "done"
  /\ UNCHANGED <<fs, pbix_path, op, arg, pending, contents, raised, stdout,
                 prev, errlog>>

\* ------------------------------------------------------ print_contents()
\* The four prints of print_contents, on the list list_contents returned.
PrintReport ==
  /\ pc = "print"
  /\ stdout' = Report(pbix_path[1], ret[1])
  /\ pc' = "done"
  /\ UNCHANGED <<fs, pbix_path, op, arg, pending, contents, handles, ret,
                 raised, prev, errlog>>

\* ------------------------------------------------------------ the caller
\* The caller takes what the call returned, raised and printed.
Resume ==
  /\ pc = "done"
  /\ pc' = "idle"
  /\ prev' = IF ret # <<>> THEN ret ELSE prev
  /\ op' = ""
  /\ arg' = <<>>
  /\ ret' = <<>>
  /\ raised' = <<>>
  /\ stdout' = <<>>
  /\ UNCHANGED <<fs, pbix_path, pending, contents, handles, errlog>>

AnalyzerNext ==
  \/ \E p \in Paths : Construct(p)
  \/ CallListContents
  \/ CallPrintContents
  \/ ZipFile_open
  \/ ZipFile_RealGetContents
  \/ AppendRecord
  \/ BodyRaises
  \/ ReturnContents
  \/ PrintReport
  \/ Resume

OthersNext ==
  \/ \E p \in Paths : \E c \in ContentsOf(p) : FsWrite(p, c)
  \/ \E p \in Paths : FsDelete(p)

Next == AnalyzerNext \/ OthersNext

Spec == Init /\ [][Next]_vars

\* ------------------------------------------------- text used by the claims
NotFoundText ==
  <<"P", "B", "I", "X", " ", "f", "i", "l", "e", " ", "n", "o", "t", " ",
    "f", "o", "u", "n", "d">>
MustHaveText ==
  <<"m", "u", "s", "t", " ", "h", "a", "v", "e", " ", ".", "p", "b", "i",
    "x", " ", "e", "x", "t", "e", "n", "s", "i", "o", "n">>
TxtExt ==
  <<".", "t", "x", "t">>
Size2048Text ==
  <<"2", ",", "0", "4", "8", " ", "b", "y", "t", "e", "s">>
HeaderText ==
  <<"C", "o", "n", "t", "e", "n", "t", "s", " ", "o", "f", " ">>
TotalText ==
  <<"T", "o", "t", "a", "l", " ", "f", "i", "l", "e", "s", ":", " ">>
StartsWith(s, t) == Len(t) <= Len(s) /\ SubSeq(s, 1, Len(t)) = t

EndsWith(s, t) == Len(t) <= Len(s) /\ SubSeq(s, Len(s) - Len(t) + 1, Len(s)) = t

Contains(s, t) ==
  \E k \in 0..(Len(s) - Len(t)) : SubSeq(s, k + 1, k + Len(t)) = t

IsDigit(c) == \E k \in 1..Len(DigitChar) : DigitChar[k] = c

DigitValue(c) == (CHOOSE k \in 1..Len(DigitChar) : DigitChar[k] = c) - 1

\* The number a string of digits and commas denotes, the commas skipped.
RECURSIVE ValueOf(_)
ValueOf(s) ==
  IF s = <<>> THEN 0
  ELSE IF s[Len(s)] = "," THEN ValueOf(SubSeq(s, 1, Len(s) - 1))
  ELSE 10 * ValueOf(SubSeq(s, 1, Len(s) - 1)) + DigitValue(s[Len(s)])

\* s is n in decimal, without leading zeros, with a comma exactly before
\* every group of three digits counted from the right.
IsGroupedDecimal(s, n) ==
  /\ Len(s) >= 1
  /\ \A k \in 1..Len(s) :
       IF (Len(s) - k) % 4 = 3 THEN s[k] = "," ELSE IsDigit(s[k])
  /\ s[1] # ","
  /\ (s[1] = "0" => Len(s) = 1)
  /\ ValueOf(s) = n

\* s is the size text of an entry of n bytes.
IsSizeText(s, n) ==
  /\ EndsWith(s, BytesSuffix)
  /\ IsGroupedDecimal(SubSeq(s, 1, Len(s) - Len(BytesSuffix)), n)

\* The lines of a text: what stands before each newline, after the one before.
Lines(text) ==
  LET nl == {k \in 1..Len(text) : text[k] = "\n"}
      at(i) == CHOOSE k \in nl : Cardinality({j \in nl : j < k}) = i - 1
  IN [i \in 1..Cardinality(nl) |->
        SubSeq(text, IF i = 1 THEN 1 ELSE at(i - 1) + 1, at(i) - 1)]

Larger(a, b) == IF a < b THEN b ELSE a

\* line shows item: the name first, the size last, blanks between, the name in
\* a field of 60 and the size in a field of 15 (wider when the text is longer).
IsEntryLine(line, item) ==
  /\ StartsWith(line, item.name)
  /\ EndsWith(line, item.size)
  /\ Len(line) = Larger(Len(item.name), NameWidth) + 1
                   + Larger(Len(item.size), SizeWidth)
  /\ \A k \in (Len(item.name) + 1)..(Len(line) - Len(item.size)) : line[k] = " "

\* The paths of the model whose extension is .pbix in some letter case, and the
\* suffix of each path, written out by hand.
HasPbixExtension(path) == path \in {ModelPbix, MixedPbix}

ActualSuffix(path) ==
  CASE path = TestTxt        -> TxtExt
    [] path = DotPbix        -> <<>>
    [] path = VersionedModel -> <<>>
    [] path = ModelPbix      -> <<".", "p", "b", "i", "x">>
    [] path = MixedPbix      -> <<".", "P", "b", "i", "x">>

\* A constructor call has just ended, on a filesystem that has not changed since.
Constructed == pc = "done" /\ op = "__init__"

\* A list_contents() or print_contents() call has just ended.
Listed == pc = "done" /\ op \in {"list_contents", "print_contents"}

C2_MissingTxtIsValueError ==
  (Constructed /\ arg = <<TestTxt>> /\ fs[TestTxt] = Absent) =>
    /\ raised # <<>>
    /\ raised[1].cls = "ValueError"
    /\ Contains(raised[1].msg, MustHaveText)

\* C3: on an existing path construction raises ValueError (InvalidExtension),
\* naming ".pbix" and the actual suffix, exactly when the extension is not
\* .pbix in any letter case; otherwise it succeeds and binds the path.
C3_ExtensionDecidesExisting ==
  (Constructed /\ fs[arg[1]] # Absent) =>
    IF HasPbixExtension(arg[1])
      THEN raised = <<>> /\ pbix_path = arg
      ELSE /\ raised # <<>>
           /\ raised[1].cls = "ValueError"
           /\ raised[1].kind = "InvalidExtension"
           /\ Contains(raised[1].msg, PbixExt)
           /\ EndsWith(raised[1].msg, <<":", " ">> \o ActualSuffix(arg[1]))
           /\ pbix_path = <<>>

\* C3 witness: an existing path with a mixed-case .Pbix extension constructed.
C3_Witness ==
  /\ Constructed
  /\ arg = <<MixedPbix>>
  /\ fs[MixedPbix] # Absent
  /\ raised = <<>>
  /\ pbix_path = <<MixedPbix>>

\* C4: what list_contents returns for a well-formed archive has one record per
\* entry, in stored order, each with the entry's name and its size in decimal
\* with thousands separators followed by " bytes"; 2048 gives "2,048 bytes".
C4_OneRecordPerEntry ==
  (Listed /\ ret # <<>>) =>
    LET entries == fs[pbix_path[1]].entries
    IN /\ fs[pbix_path[1]].kind = "zip"
       /\ Len(ret[1]) = Len(entries)
       /\ \A k \in 1..Len(entries) :
            /\ ret[1][k].name = entries[k].filename
            /\ IsSizeText(ret[1][k].size, entries[k].file_size)
            /\ (entries[k].file_size = 2048 => ret[1][k].size = Size2048Text)

\* C4 witness: two entries listed in stored order, which is not sorted order.
C4_Witness ==
  /\ Listed
  /\ ret # <<>>
  /\ Len(ret[1]) = 2
  /\ ret[1][1].name = NameLayout
  /\ ret[1][2].name = NameDataModel
  /\ ret[1][2].size = Size2048Text

\* C5: on a .pbix file that is no ZIP container construction succeeds, opening
\* nothing, and list_contents fails with ValueError (CorruptArchive), returning
\* and printing nothing.
C5_CorruptionFoundLazily ==
  /\ (Constructed /\ HasPbixExtension(arg[1]) /\ fs[arg[1]] = Data) =>
       raised = <<>> /\ pbix_path = arg /\ handles = 0
  /\ (Listed /\ fs[pbix_path[1]] = Data) =>
       /\ raised # <<>>
       /\ raised[1].cls = "ValueError"
       /\ raised[1].kind = "CorruptArchive"
       /\ ret = <<>>
       /\ stdout = <<>>

\* C5 witness: list_contents failed on a constructed analyzer whose file is
\* no archive.
C5_Witness ==
  /\ Listed
  /\ op = "list_contents"
  /\ fs[pbix_path[1]] = Data
  /\ raised # <<>>
  /\ raised[1].kind = "CorruptArchive"

\* C6: a listing of a file nobody modified since its last listing equals that
\* last listing.
C6_RepeatedListingEqual ==
  (pc \in {"print", "done"} /\ ret # <<>> /\ prev # <<>>) => ret = prev

\* C6 witness: a second listing of an unmodified two-entry archive.
C6_Witness ==
  /\ Listed
  /\ ret # <<>>
  /\ prev = ret
  /\ Len(ret[1]) = 2

\* C7: print_contents writes an empty line, "Contents of <file name>:", a rule
\* of exactly 80 dashes, one line per record in listing order (name left in a
\* field of 60, size right in a field of 15), an empty line and, last,
\* "Total files: N", N the number of records list_contents returned.
C7_ReportLayout ==
  (Listed /\ op = "print_contents" /\ raised = <<>>) =>
    LET L == Lines(stdout)
        N == Len(ret[1])
    IN /\ stdout # <<>>
       /\ stdout[Len(stdout)] = "\n"
       /\ Len(L) = N + 5
       /\ L[1] = <<>>
       /\ L[2] = HeaderText \o pbix_path[1] \o <<":">>
       /\ Len(L[3]) = 80
       /\ \A k \in 1..Len(L[3]) : L[3][k] = "-"
       /\ \A k \in 1..N : IsEntryLine(L[3 + k], ret[1][k])
       /\ L[N + 4] = <<>>
       /\ N < 10
       /\ L[N + 5] = TotalText \o <<DigitChar[N + 1]>>

\* C7 witness: the report of a two-entry archive, ending "Total files: 2".
C7_Witness ==
  /\ Listed
  /\ op = "print_contents"
  /\ raised = <<>>
  /\ Len(ret[1]) = 2
  /\ EndsWith(stdout, TotalText \o <<"2", "\n">>)

\* C8: any two errors of different kinds among NotFound, InvalidExtension and
\* CorruptArchive differ in their exception class.
C8_KindsDifferInClass ==
  \A e1, e2 \in errlog : e1.kind # e2.kind => e1.cls # e2.cls

\* C8 as amended: NotFound is FileNotFoundError, and only NotFound is;
\* InvalidExtension and CorruptArchive are both ValueError and differ in the
\* operation that raises them, the constructor or list_contents.
C8_ClassOrOperationTellsKind ==
  /\ \A e \in errlog :
       /\ e.kind \in {"NotFound", "InvalidExtension", "CorruptArchive"}
       /\ e.kind = "NotFound" <=> e.cls = "FileNotFoundError"
       /\ e.kind # "NotFound" <=> e.cls = "ValueError"
       /\ e.kind = "InvalidExtension" => e.by = "__init__"
       /\ e.kind = "CorruptArchive" => e.by = "list_contents"
  /\ \A e1, e2 \in errlog :
       (e1.kind # e2.kind /\ e1.cls = e2.cls) => e1.by # e2.by

\* C8 witness: all three kinds have been raised.
C8_Witness ==
  {e.kind : e \in errlog} = {"NotFound", "InvalidExtension", "CorruptArchive"}

\* C9: once constructed, the analyzer's path exists and has the extension
\* .pbix in some letter case.
C9_BoundPathAlwaysExists ==
  pbix_path # <<>> =>
    fs[pbix_path[1]] # Absent /\ HasPbixExtension(pbix_path[1])

\* C9 as amended: the path existed when the analyzer was constructed, has the
\* extension .pbix in some letter case and never changes afterwards, and no
\* step of an analyzer call changes the filesystem.
C9_BoundPathFixedFileUntouched ==
  [][ /\ (pbix_path # <<>> => pbix_path' = pbix_path)
      /\ (pbix_path' # <<>> => HasPbixExtension(pbix_path'[1]))
      /\ (pbix_path = <<>> /\ pbix_path' # <<>> => fs[pbix_path'[1]] # Absent)
      /\ (pc # "idle" \/ pc' # "idle" => fs' = fs) ]_vars

\* C9 witness: the file of a constructed analyzer was deleted by another
\* program, and a listing then failed.
C9_Witness ==
  /\ Listed
  /\ pbix_path # <<>>
  /\ fs[pbix_path[1]] = Absent
  /\ raised # <<>>
  /\ raised[1].cls = "FileNotFoundError"

\* C10: the analyzer holds a file handle only between the opening of the
\* archive and the end of the with block; when a call ends, in a return or
\* in any error, it holds none.
C10_NoHandleOutsideWith ==
  /\ handles = (IF pc \in {"read", "loop"} THEN 1 ELSE 0)
  /\ pc \in {"idle", "done"} => handles = 0

\* C10 witness: an error raised inside the with block left no handle open.
C10_Witness ==
  /\ Listed
  /\ raised = <<BodyError>>
  /\ handles = 0
=============================================================================
